---------------------------- MODULE Spec2Model ----------------------------
(***************************************************************************)
(* A model of the pong game loop of src/src/game.rs and src/src/main.rs.   *)
(*                                                                         *)
(* Numbers.  The program keeps positions, velocities and the frame time    *)
(* in f32.  The model keeps them in fixed point: a time is a whole number  *)
(* of 1/TICKS_PER_SEC seconds (0.1 ms), a velocity a whole number of       *)
(* pixels per second, a position a whole number of 1/PX pixels, so that    *)
(* pos + vel * dt is exact.  Every velocity the program draws is a whole   *)
(* number of pixels per second.                                            *)
(***************************************************************************)
EXTENDS Integers, Sequences, FiniteSets, TLC

VARIABLES
    build_result, \* what Game::build returned to main: "ok", or the step that failed
    pc,           \* where main/run is: "loop", "input", "update", "render", "exited"
    exit_code,    \* the process's exit code once pc = "exited", else -1
    is_running,   \* Game.is_running
    balls,        \* Game.balls, front first
    paddle_pos,   \* Game.paddle_pos
    paddle_dir,   \* Game.paddle_dir
    keys,         \* the movement keys the latest process_input found pressed
    fresh,        \* number of balls the latest process_input spawned
    elapsed,      \* the clock reading the latest update took its delta_time from
    delta_time,   \* update's local delta_time of the latest update
    events,       \* SDL's event queue: events not yet polled
    r_held,       \* whether the R key is physically down
    created,      \* number of balls created so far (a ball's id is its rank)
    press_spawns, \* balls spawned by the latest physical press of R
    frames,       \* number of frames presented
    frame         \* the rectangles of the latest frame presented

vars == <<build_result, pc, exit_code, is_running, balls, paddle_pos, paddle_dir, keys, fresh,
          elapsed, delta_time, events, r_held, created, press_spawns, frames, frame>>

---------------------------------------------------------------------------
(* Units *)

\* one pixel, in position units
PX == 10000
\* one second, in time units
TICKS_PER_SEC == 10000

---------------------------------------------------------------------------
(* Bounds of the model *)

\* iterations of run's loop that are started
MaxFrames == 2
\* balls created by R key-down events, beyond the two of build
MaxSpawns == 4
\* events waiting in SDL's queue
MaxQueue == 2
\* calls of the physics of update on a drawn world
MaxAdvance == 2
\* updates over which a ball below the window is followed
ReturnHorizon == 3
\* presses of R queued when process_input polls, in the run of one iteration
MaxBurst == 6

\* clock readings since the last frame, in time units: 10 ms, 16.9 ms, 17 ms, 0.1 s
Elapsed == {100, 169, 170, 1000}
\* the draws of rng.gen_range(0..400) and rng.gen_range(-400..-200) that the
\* model of the loop follows; the generator is checked over its whole ranges
\* under SpecVelocity, the physics over a grid of worlds under SpecAdvance
SampleX == {0}
SampleY == {-400}

---------------------------------------------------------------------------
(* Game's constants *)

THICKNESS == 15 * PX
WINDOW_WIDTH == 1024 * PX
WINDOW_HEIGHT == 768 * PX
PADDLE_WIDTH == 6 * THICKNESS
PADDLE_VEL == 800
\* the length at which an R key-down evicts the back ball
MAX_BALLS == 5

Abs(n) == IF n < 0 THEN -n ELSE n

Vector2(x, y) == [x |-> x, y |-> y]

\* a Ball, with the rank of its creation
Ball(id, pos, vel) == [id |-> id, pos |-> pos, vel |-> vel]

---------------------------------------------------------------------------
(* get_random_velocity: sx and sy are the two draws of the generator *)

RangeX == 0 .. 399
RangeY == -400 .. -201

get_random_velocity_noshift(sx, sy) == Vector2(IF sx < 200 THEN -sx ELSE sx, sy)

get_random_velocity(sx, sy) ==
    Vector2(IF sx < 200 THEN -(sx + 200) ELSE sx, sy)

---------------------------------------------------------------------------
(* Game::build *)

\* the balls of a new Game: two push_front calls
InitialBalls(v1, v2) ==
    LET b0 == <<>>
        b1 == <<Ball(1, Vector2((WINDOW_WIDTH * 3) \div 4, WINDOW_HEIGHT \div 2), v1)>> \o b0
        b2 == <<Ball(2, Vector2(WINDOW_WIDTH \div 4, WINDOW_HEIGHT \div 2), v2)>> \o b1
    IN  b2

InitialPaddle == Vector2(WINDOW_WIDTH \div 2, WINDOW_HEIGHT - THICKNESS)

---------------------------------------------------------------------------
(* Game::process_input *)

QuitEvent == [type |-> "Quit", keycode |-> "None", repeat |-> FALSE]
KeyDown(k, rep) == [type |-> "KeyDown", keycode |-> k, repeat |-> rep]
KeyUp(k) == [type |-> "KeyUp", keycode |-> k, repeat |-> FALSE]

IsQuit_anykey(ev) ==
    \/ ev.type = "Quit"
    \/ ev.type = "KeyDown"

IsQuit(ev) ==
    \/ ev.type = "Quit"
    \/ ev.type = "KeyDown" /\ ev.keycode = "Escape"

IsSpawn(ev) == ev.type = "KeyDown" /\ ev.keycode = "R"

\* the R key-down arm: pop_back at length 5, then push_front
SpawnBall_nocap(bs, id, vel) ==
    <<Ball(id, Vector2(WINDOW_WIDTH \div 2, WINDOW_HEIGHT \div 2), vel)>> \o bs

SpawnBall_popfront(bs, id, vel) ==
    LET kept == IF Len(bs) = MAX_BALLS THEN Tail(bs) ELSE bs
    IN  <<Ball(id, Vector2(WINDOW_WIDTH \div 2, WINDOW_HEIGHT \div 2), vel)>> \o kept

SpawnBall(bs, id, vel) ==
    LET kept == IF Len(bs) = MAX_BALLS THEN SubSeq(bs, 1, Len(bs) - 1) ELSE bs
    IN  <<Ball(id, Vector2(WINDOW_WIDTH \div 2, WINDOW_HEIGHT \div 2), vel)>> \o kept

\* the state of the poll_iter loop: what the events handled so far have done
PollState(run, bs, n, ps) == [is_running |-> run, balls |-> bs, created |-> n, press_spawns |-> ps]

\* one event of the poll_iter loop; vel is the velocity drawn if it spawns
HandleEvent(s, ev, vel) ==
    IF IsQuit(ev)
    THEN [s EXCEPT !.is_running = FALSE]
    ELSE IF IsSpawn(ev)
    THEN PollState(s.is_running, SpawnBall(s.balls, s.created + 1, vel), s.created + 1,
                   IF ev.repeat THEN s.press_spawns + 1 ELSE 1)
    ELSE s

\* the whole poll_iter loop over the queue evs; vels[i] is the draw for evs[i]
RECURSIVE PollAll(_, _, _)
PollAll(s, evs, vels) ==
    IF evs = <<>> THEN s
    ELSE PollAll(HandleEvent(s, Head(evs), Head(vels)), Tail(evs), Tail(vels))

\* the scan of pressed_scancodes, in scancode order (A before D)
DirectionOf_sticky(ks, old) ==
    IF "D" \in ks THEN 1 ELSE IF "A" \in ks THEN -1 ELSE old

DirectionOf(ks, old) ==
    IF "D" \in ks THEN 1 ELSE IF "A" \in ks THEN -1 ELSE 0

---------------------------------------------------------------------------
(* Game::update: frame pacing *)

\* Duration::as_millis: whole milliseconds, the rest dropped
AsMillis(e) == e \div (TICKS_PER_SEC \div 1000)

\* the busy wait of update is left at a clock reading e
WaitOver_atleast(e) == AsMillis(e) >= 10

WaitOver(e) == AsMillis(e) > 16

\* 0.05 s
MAX_DELTA == TICKS_PER_SEC \div 20

\* the cap on delta time
CapDelta_none(e) == e

CapDelta(e) == IF e >= MAX_DELTA THEN MAX_DELTA ELSE e

---------------------------------------------------------------------------
(* Game::update: physics *)

\* v * dt, v in pixels per second and dt in time units, in position units
Step(v, dt) == v * dt * (PX \div TICKS_PER_SEC)

PADDLE_MIN == THICKNESS + PADDLE_WIDTH \div 2
PADDLE_MAX == WINDOW_WIDTH - PADDLE_WIDTH \div 2 - THICKNESS

\* make sure the paddle doesn't go off the screen
ClampPaddle_rightonly(x) == IF x > PADDLE_MAX THEN PADDLE_MAX ELSE x

ClampPaddle(x) ==
    IF x > PADDLE_MAX THEN PADDLE_MAX
    ELSE IF x < PADDLE_MIN THEN PADDLE_MIN
    ELSE x

\* move paddle
MovePaddle(ppos, dir, dt) ==
    IF dir # 0
    THEN [ppos EXCEPT !.x = ClampPaddle(ppos.x + Step(dir * PADDLE_VEL, dt))]
    ELSE ppos

\* collision detection with right and left walls
HitsSideWall_anydir(pos, vel) ==
    \/ pos.x <= THICKNESS
    \/ pos.x >= WINDOW_WIDTH - THICKNESS

HitsSideWall_rightonly(pos, vel) ==
    pos.x >= WINDOW_WIDTH - THICKNESS /\ vel.x > 0

HitsSideWall(pos, vel) ==
    \/ pos.x <= THICKNESS /\ vel.x < 0
    \/ pos.x >= WINDOW_WIDTH - THICKNESS /\ vel.x > 0

\* collision detection with top wall
HitsTopWall_strict(pos, vel) == pos.y < THICKNESS /\ vel.y < 0

HitsTopWall(pos, vel) == pos.y <= THICKNESS /\ vel.y < 0

\* collision detection with paddle
HitsPaddle_nobottom(ppos, pos, vel) ==
    /\ Abs(ppos.x - pos.x) <= PADDLE_WIDTH \div 2
    /\ pos.y >= WINDOW_HEIGHT - THICKNESS
    /\ vel.y > 0

HitsPaddle(ppos, pos, vel) ==
    /\ Abs(ppos.x - pos.x) <= PADDLE_WIDTH \div 2
    /\ pos.y >= WINDOW_HEIGHT - THICKNESS
    /\ pos.y <= WINDOW_HEIGHT
    /\ vel.y > 0

\* the body of the loop over the balls, for one ball; ppos is the paddle as moved
MoveBall_restitution(ball, ppos, dt) ==
    LET pos == Vector2(ball.pos.x + Step(ball.vel.x, dt), ball.pos.y + Step(ball.vel.y, dt))
        vx  == IF HitsSideWall(pos, ball.vel) THEN -((ball.vel.x * 9) \div 10) ELSE ball.vel.x
        vy1 == IF HitsTopWall(pos, Vector2(vx, ball.vel.y)) THEN -ball.vel.y ELSE ball.vel.y
        vy2 == IF HitsPaddle(ppos, pos, Vector2(vx, vy1)) THEN -vy1 ELSE vy1
    IN  [ball EXCEPT !.pos = pos, !.vel = Vector2(vx, vy2)]

MoveBall_snap(ball, ppos, dt) ==
    LET pos == Vector2(ball.pos.x + Step(ball.vel.x, dt), ball.pos.y + Step(ball.vel.y, dt))
        hit == HitsSideWall(pos, ball.vel)
        px  == IF ~hit THEN pos.x ELSE IF ball.vel.x < 0 THEN THICKNESS ELSE WINDOW_WIDTH - THICKNESS
        vx  == IF hit THEN -ball.vel.x ELSE ball.vel.x
        vy1 == IF HitsTopWall(pos, Vector2(vx, ball.vel.y)) THEN -ball.vel.y ELSE ball.vel.y
        vy2 == IF HitsPaddle(ppos, pos, Vector2(vx, vy1)) THEN -vy1 ELSE vy1
    IN  [ball EXCEPT !.pos = Vector2(px, pos.y), !.vel = Vector2(vx, vy2)]

MoveBall(ball, ppos, dt) ==
    LET pos == Vector2(ball.pos.x + Step(ball.vel.x, dt), ball.pos.y + Step(ball.vel.y, dt))
        vx  == IF HitsSideWall(pos, ball.vel) THEN -ball.vel.x ELSE ball.vel.x
        vy1 == IF HitsTopWall(pos, Vector2(vx, ball.vel.y)) THEN -ball.vel.y ELSE ball.vel.y
        vy2 == IF HitsPaddle(ppos, pos, Vector2(vx, vy1)) THEN -vy1 ELSE vy1
    IN  [ball EXCEPT !.pos = pos, !.vel = Vector2(vx, vy2)]

\* update from "move paddle" on, with the delta time dt
Advance_reversed(bs, ppos, dir, dt) ==
    LET moved == MovePaddle(ppos, dir, dt)
    IN  [paddle_pos |-> moved,
         balls |-> [i \in 1 .. Len(bs) |-> MoveBall(bs[Len(bs) + 1 - i], moved, dt)]]

Advance_oldpaddle(bs, ppos, dir, dt) ==
    [paddle_pos |-> MovePaddle(ppos, dir, dt),
     balls |-> [i \in 1 .. Len(bs) |-> MoveBall(bs[i], ppos, dt)]]

Advance(bs, ppos, dir, dt) ==
    LET moved == MovePaddle(ppos, dir, dt)
    IN  [paddle_pos |-> moved,
         balls |-> [i \in 1 .. Len(bs) |-> MoveBall(bs[i], moved, dt)]]

---------------------------------------------------------------------------
(* Game::render *)

\* f32 as i32 / as u32 of a position: the fraction dropped, toward zero
AsInt(v) == IF v >= 0 THEN v \div PX ELSE -((-v) \div PX)

Rect(x, y, w, h) == [x |-> x, y |-> y, w |-> w, h |-> h]

BallRect(ball) ==
    Rect(AsInt(ball.pos.x - THICKNESS \div 2), AsInt(ball.pos.y - THICKNESS \div 2),
         AsInt(THICKNESS), AsInt(THICKNESS))

\* the rectangles filled between clear and present, in order
Rects(bs, ppos) ==
    <<Rect(0, 0, AsInt(WINDOW_WIDTH), AsInt(THICKNESS)),
      Rect(0, 0, AsInt(THICKNESS), AsInt(WINDOW_HEIGHT - THICKNESS)),
      Rect(AsInt(WINDOW_WIDTH - THICKNESS), 0, AsInt(THICKNESS), AsInt(WINDOW_HEIGHT - THICKNESS)),
      Rect(AsInt(ppos.x - PADDLE_WIDTH \div 2), AsInt(ppos.y), AsInt(PADDLE_WIDTH), AsInt(THICKNESS))>>
    \o [i \in 1 .. Len(bs) |-> BallRect(bs[i])]

---------------------------------------------------------------------------
(* main and Game::build: the state when run is entered, or the process has  *)
(* exited because build failed                                              *)

BuildOutcomes == {"ok", "sdl_init", "video", "window", "canvas"}

SampleVel == {get_random_velocity(sx, sy) : sx \in SampleX, sy \in SampleY}

Built(v1, v2) ==
    /\ pc = "loop"
    /\ exit_code = -1
    /\ is_running = TRUE
    /\ balls = InitialBalls(v1, v2)
    /\ paddle_pos = InitialPaddle
    /\ paddle_dir = 0
    /\ created = 2

BuildFailed_entersloop ==
    /\ pc = "loop"
    /\ exit_code = -1
    /\ is_running = TRUE
    /\ balls = <<>>
    /\ paddle_pos = InitialPaddle
    /\ paddle_dir = 0
    /\ created = 0

\* build returned Err: main prints it and exits with code 1; there is no Game
BuildFailed ==
    /\ pc = "exited"
    /\ exit_code = 1
    /\ is_running = FALSE
    /\ balls = <<>>
    /\ paddle_pos = InitialPaddle
    /\ paddle_dir = 0
    /\ created = 0

Init ==
    /\ \E outcome \in BuildOutcomes :
          /\ build_result = outcome
          /\ IF outcome = "ok"
             THEN \E v1 \in SampleVel, v2 \in SampleVel : Built(v1, v2)
             ELSE BuildFailed
    /\ keys = {}
    /\ fresh = 0
    /\ elapsed = -1
    /\ delta_time = -1
    /\ events = <<>>
    /\ r_held = FALSE
    /\ press_spawns = 0
    /\ frames = 0
    /\ frame = <<>>

---------------------------------------------------------------------------
(* The player and the window system, between two polls.  What they do is    *)
(* seen by the program only in process_input, so they act while run is      *)
(* about to call it.                                                        *)

SpawnsQueued == Cardinality({i \in 1 .. Len(events) : IsSpawn(events[i])})

CanPost == pc = "input" /\ Len(events) < MaxQueue

CanSpawn == created - 2 + SpawnsQueued < MaxSpawns

\* the R key goes down
PressR ==
    /\ CanPost /\ CanSpawn
    /\ ~r_held
    /\ r_held' = TRUE
    /\ events' = Append(events, KeyDown("R", FALSE))
    /\ UNCHANGED <<build_result, keys, fresh, pc, exit_code, is_running, balls, paddle_pos, paddle_dir, elapsed, delta_time,
                   created, press_spawns, frames, frame>>

\* the R key stays down: the keyboard's auto-repeat posts another key-down
RepeatR ==
    /\ CanPost /\ CanSpawn
    /\ r_held
    /\ events' = Append(events, KeyDown("R", TRUE))
    /\ UNCHANGED <<build_result, keys, fresh, pc, exit_code, is_running, balls, paddle_pos, paddle_dir, elapsed, delta_time,
                   r_held, created, press_spawns, frames, frame>>

\* the R key goes up
ReleaseR ==
    /\ CanPost
    /\ r_held
    /\ r_held' = FALSE
    /\ events' = Append(events, KeyUp("R"))
    /\ UNCHANGED <<build_result, keys, fresh, pc, exit_code, is_running, balls, paddle_pos, paddle_dir, elapsed, delta_time,
                   created, press_spawns, frames, frame>>

PressEscape ==
    /\ CanPost
    /\ events' = Append(events, KeyDown("Escape", FALSE))
    /\ UNCHANGED <<build_result, keys, fresh, pc, exit_code, is_running, balls, paddle_pos, paddle_dir, elapsed, delta_time,
                   r_held, created, press_spawns, frames, frame>>

CloseWindow ==
    /\ CanPost
    /\ events' = Append(events, QuitEvent)
    /\ UNCHANGED <<build_result, keys, fresh, pc, exit_code, is_running, balls, paddle_pos, paddle_dir, elapsed, delta_time,
                   r_held, created, press_spawns, frames, frame>>

---------------------------------------------------------------------------
(* Game::run *)

\* the while condition holds: the next iteration starts
LoopEnter ==
    /\ pc = "loop"
    /\ is_running
    /\ frames < MaxFrames
    /\ pc' = "input"
    /\ UNCHANGED <<build_result, keys, fresh, exit_code, is_running, balls, paddle_pos, paddle_dir, elapsed, delta_time,
                   events, r_held, created, press_spawns, frames, frame>>

\* the while condition fails: run returns, main returns
LoopExit ==
    /\ pc = "loop"
    /\ ~is_running
    /\ pc' = "exited"
    /\ exit_code' = 0
    /\ UNCHANGED <<build_result, keys, fresh, is_running, balls, paddle_pos, paddle_dir, elapsed, delta_time,
                   events, r_held, created, press_spawns, frames, frame>>

\* process_input: every queued event, then the keyboard state; ks are the
\* movement keys down when the keyboard state is read
\* (the event pump is taken anew in every call and dropped at its end, and
\* the event subsystem is up since build, so event_pump() returns Ok)
ProcessInput ==
    /\ pc = "input"
    /\ \E vels \in [1 .. Len(events) -> SampleVel], ks \in SUBSET {"A", "D"} :
          LET s == PollAll(PollState(is_running, balls, created, press_spawns), events, vels)
          IN  /\ is_running' = s.is_running
              /\ balls' = s.balls
              /\ created' = s.created
              /\ press_spawns' = s.press_spawns
              /\ paddle_dir' = DirectionOf(ks, paddle_dir)
              /\ keys' = ks
              /\ fresh' = s.created - created
    /\ events' = <<>>
    /\ pc' = "update"
    /\ UNCHANGED <<build_result, exit_code, paddle_pos, elapsed, delta_time, r_held, frames, frame>>

Update_cancel ==
    IF ~is_running
    THEN /\ pc = "update"
         /\ pc' = "exited"
         /\ exit_code' = 0
         /\ UNCHANGED <<build_result, keys, fresh, is_running, balls, paddle_pos, paddle_dir, elapsed,
                        delta_time, events, r_held, created, press_spawns, frames, frame>>
    ELSE
         /\ pc = "update"
         /\ \E e1 \in Elapsed, e2 \in Elapsed :
               /\ WaitOver(e1)
               /\ e2 >= e1
               /\ LET dt == CapDelta(e2)
                      w  == Advance(balls, paddle_pos, paddle_dir, dt)
                  IN  /\ elapsed' = e2
                      /\ delta_time' = dt
                      /\ paddle_pos' = w.paddle_pos
                      /\ balls' = w.balls
         /\ pc' = "render"
         /\ UNCHANGED <<build_result, keys, fresh, exit_code, is_running, paddle_dir, events, r_held, created,
                        press_spawns, frames, frame>>

Update_skipfresh ==
    /\ pc = "update"
    /\ \E e1 \in Elapsed, e2 \in Elapsed :
          /\ WaitOver(e1)
          /\ e2 >= e1
          /\ LET dt == CapDelta(e2)
                 w  == Advance(balls, paddle_pos, paddle_dir, dt)
             IN  /\ elapsed' = e2
                 /\ delta_time' = dt
                 /\ paddle_pos' = w.paddle_pos
                 /\ balls' = [i \in 1 .. Len(balls) |-> IF i <= fresh THEN balls[i] ELSE w.balls[i]]
    /\ pc' = "render"
    /\ UNCHANGED <<build_result, keys, fresh, exit_code, is_running, paddle_dir, events, r_held, created,
                   press_spawns, frames, frame>>

\* update: e1 is the clock reading that ends the wait, e2 the later reading
\* that becomes delta_time
Update ==
    /\ pc = "update"
    /\ \E e1 \in Elapsed, e2 \in Elapsed :
          /\ WaitOver(e1)
          /\ e2 >= e1
          /\ LET dt == CapDelta(e2)
                 w  == Advance(balls, paddle_pos, paddle_dir, dt)
             IN  /\ elapsed' = e2
                 /\ delta_time' = dt
                 /\ paddle_pos' = w.paddle_pos
                 /\ balls' = w.balls
    /\ pc' = "render"
    /\ UNCHANGED <<build_result, keys, fresh, exit_code, is_running, paddle_dir, events, r_held, created,
                   press_spawns, frames, frame>>

Render ==
    /\ pc = "render"
    /\ frame' = Rects(balls, paddle_pos)
    /\ frames' = frames + 1
    /\ pc' = "loop"
    /\ UNCHANGED <<build_result, keys, fresh, exit_code, is_running, balls, paddle_pos, paddle_dir, elapsed, delta_time,
                   events, r_held, created, press_spawns>>

Next ==
    \/ PressR \/ RepeatR \/ ReleaseR \/ PressEscape \/ CloseWindow
    \/ LoopEnter \/ LoopExit \/ ProcessInput \/ Update \/ Render

Spec == Init /\ [][Next]_vars

---------------------------------------------------------------------------
(* The physics of update as a function: a world is drawn, and update's      *)
(* body from "move paddle" on is applied to it with a drawn paddle_dir and  *)
(* delta time.                                                              *)

GridX == {14 * PX, 15 * PX, 16 * PX, 512 * PX, 1009 * PX, 1010 * PX}
GridY == {14 * PX, 15 * PX, 16 * PX, 384 * PX, 753 * PX, 768 * PX, 769 * PX}
GridVelX == {-399, 200}
GridVelY == {-400, 201}
GridPaddleX == {61 * PX, 512 * PX, 557 * PX, 558 * PX, 963 * PX}
\* delta times: 0, 17 ms, 50 ms
GridDelta == {0, 170, 500}

InitAdvance ==
    /\ build_result = "ok"
    /\ pc = "advance"
    /\ exit_code = -1
    /\ keys = {}
    /\ fresh = 0
    /\ is_running = TRUE
    /\ \E x \in GridX, y \in GridY, vx \in GridVelX, vy \in GridVelY :
          balls = <<Ball(1, Vector2(x, y), Vector2(vx, vy))>>
    /\ \E px \in GridPaddleX : paddle_pos = Vector2(px, WINDOW_HEIGHT - THICKNESS)
    /\ paddle_dir = 0
    /\ elapsed = -1
    /\ delta_time = -1
    /\ events = <<>>
    /\ r_held = FALSE
    /\ created = 1
    /\ press_spawns = 0
    /\ frames = 0
    /\ frame = <<>>

AdvanceStep ==
    /\ pc = "advance"
    /\ frames < MaxAdvance
    /\ \E dir \in {-1, 0, 1}, dt \in GridDelta :
          LET w == Advance(balls, paddle_pos, dir, dt)
          IN  /\ paddle_dir' = dir
              /\ delta_time' = dt
              /\ paddle_pos' = w.paddle_pos
              /\ balls' = w.balls
    /\ frames' = frames + 1
    /\ UNCHANGED <<build_result, keys, fresh, pc, exit_code, is_running, elapsed, events, r_held, created, press_spawns, frame>>

NextAdvance == AdvanceStep

SpecAdvance == InitAdvance /\ [][NextAdvance]_vars

---------------------------------------------------------------------------
(* get_random_velocity as a function: one ball is created with the          *)
(* velocity of every pair of draws.                                         *)

InitVelocity ==
    /\ build_result = "ok"
    /\ pc = "velocity"
    /\ exit_code = -1
    /\ keys = {}
    /\ fresh = 0
    /\ is_running = TRUE
    /\ balls = <<>>
    /\ paddle_pos = InitialPaddle
    /\ paddle_dir = 0
    /\ elapsed = -1
    /\ delta_time = -1
    /\ events = <<>>
    /\ r_held = FALSE
    /\ created = 0
    /\ press_spawns = 0
    /\ frames = 0
    /\ frame = <<>>

DrawVelocity ==
    /\ pc = "velocity"
    /\ balls = <<>>
    /\ \E sx \in RangeX, sy \in RangeY :
          balls' = SpawnBall(balls, created + 1, get_random_velocity(sx, sy))
    /\ created' = created + 1
    /\ UNCHANGED <<build_result, keys, fresh, pc, exit_code, is_running, paddle_pos, paddle_dir, elapsed, delta_time,
                   events, r_held, press_spawns, frames, frame>>

NextVelocity == DrawVelocity

SpecVelocity == InitVelocity /\ [][NextVelocity]_vars

---------------------------------------------------------------------------
(* One iteration of run after build, entered with a burst of presses of R   *)
(* in the queue: the window system queues the events of the time between    *)
(* two polls, however many they are.                                        *)

\* n events of the R key, down and up in turn, the first one down or up
Burst(n, down) ==
    [i \in 1 .. n |-> IF (i % 2 = 1) = down THEN KeyDown("R", FALSE) ELSE KeyUp("R")]

InitPoll ==
    /\ build_result = "ok"
    /\ pc = "input"
    /\ exit_code = -1
    /\ is_running = TRUE
    /\ \E v1 \in SampleVel, v2 \in SampleVel : balls = InitialBalls(v1, v2)
    /\ paddle_pos = InitialPaddle
    /\ paddle_dir = 0
    /\ created = 2
    /\ \E n \in 0 .. 2 * MaxBurst, held \in BOOLEAN :
          /\ events = Burst(n, ~held)
          /\ r_held = held
    /\ keys = {}
    /\ fresh = 0
    /\ elapsed = -1
    /\ delta_time = -1
    /\ press_spawns = 0
    /\ frames = 0
    /\ frame = <<>>

NextPoll == ProcessInput \/ Update \/ Render

SpecPoll == InitPoll /\ [][NextPoll]_vars

---------------------------------------------------------------------------
(* Claims *)

\* C1: in every state of the loop, whatever R key-down events were polled
\* (several in one iteration included) and whatever updates ran, the
\* collection holds between 0 and 5 balls.
C1_BallCount == Len(balls) >= 0 /\ Len(balls) <= 5

\* C1 witness: a spawn has acted on a full collection, which still holds 5
C1_Witness == created > 5 /\ Len(balls) = 5 /\ frames >= 1

\* C2: after any sequence of physics updates, with any paddle_dir and any
\* delta time, 60 <= paddle pos.x <= 964.
C2_PaddleRange ==
    /\ THICKNESS + PADDLE_WIDTH \div 2 <= paddle_pos.x
    /\ paddle_pos.x <= WINDOW_WIDTH - THICKNESS - PADDLE_WIDTH \div 2
    /\ 60 * PX <= paddle_pos.x
    /\ paddle_pos.x <= 964 * PX

\* C2 witness: an update moving the paddle left has stopped it at 60
C2_Witness == frames >= 1 /\ paddle_dir = -1 /\ delta_time > 0 /\ paddle_pos.x = 60 * PX

Min(a, b) == IF a < b THEN a ELSE b

\* C3: a process_input that spawns n balls puts them at the front, newest
\* first, each at (512, 384); the balls behind them are the balls that were
\* there, in their order, less the ones at the back that did not fit into 5,
\* and every ball so evicted was created before every ball that stays; with
\* room for the new balls nothing is removed.
C3_Spawn ==
    [][created' > created =>
        LET n    == created' - created
            keep == Min(Len(balls), 5 - n)
        IN  /\ Len(balls') = Min(Len(balls) + n, 5)
            /\ \A i \in 1 .. n :
                  /\ balls'[i].pos = Vector2(512 * PX, 384 * PX)
                  /\ balls'[i].id = created' - i + 1
            /\ SubSeq(balls', n + 1, Len(balls')) = SubSeq(balls, 1, keep)
            /\ \A i \in 1 .. keep : \A j \in keep + 1 .. Len(balls) :
                  balls[j].id < balls[i].id
            /\ (Len(balls) + n <= 5 => keep = Len(balls))
      ]_vars

\* C3 witness: a spawn has evicted the first ball build created
C3_Witness ==
    /\ pc = "update"
    /\ Len(balls) = 5
    /\ balls[1].id = created
    /\ \A i \in 1 .. Len(balls) : balls[i].id # 1

InHalfOpen(v, lo, hi) == lo <= v /\ v < hi

\* C4 as stated: every generated velocity has sp_y in [-400, -200) and sp_x
\* in (-600, -200) or [0, 400), and sp_x is never in [-200, 0).
C4_Original ==
    \A i \in 1 .. Len(balls) :
        /\ InHalfOpen(balls[i].vel.y, -400, -200)
        /\ \/ -600 < balls[i].vel.x /\ balls[i].vel.x < -200
           \/ InHalfOpen(balls[i].vel.x, 0, 400)
        /\ ~InHalfOpen(balls[i].vel.x, -200, 0)

\* C4 as amended: every generated velocity has sp_y in [-400, -200) and sp_x
\* in (-600, -200] or [0, 400), and sp_x is never in (-200, 0): the draw 0
\* gives sp_x = -200.
C4_VelocityRange ==
    \A i \in 1 .. Len(balls) :
        /\ InHalfOpen(balls[i].vel.y, -400, -200)
        /\ \/ -600 < balls[i].vel.x /\ balls[i].vel.x <= -200
           \/ InHalfOpen(balls[i].vel.x, 0, 400)
        /\ ~(-200 < balls[i].vel.x /\ balls[i].vel.x < 0)

\* C4 witness: a ball was created with sp_x = -200
C4_Witness == Len(balls) = 1 /\ balls[1].vel.x = -200

\* C5: a physics update with a delta time in (0, 0.05] turns every ball that
\* had vel.x < 0 and pos.x <= THICKNESS before it to vel.x > 0, the negated
\* vel.x.
C5_LeftWall ==
    [][(frames' = frames + 1 /\ 0 < delta_time' /\ delta_time' <= MAX_DELTA) =>
        \A i \in 1 .. Len(balls) :
            (balls[i].vel.x < 0 /\ balls[i].pos.x <= 15 * PX) =>
                /\ balls'[i].vel.x > 0
                /\ balls'[i].vel.x = -balls[i].vel.x
      ]_vars

\* C5 witness: after an update with a positive delta time a ball is left of
\* the wall's edge and moves right at 399, which only a reflection gives
C5_Witness ==
    /\ frames = 1 /\ delta_time > 0
    /\ balls[1].pos.x < 15 * PX /\ balls[1].vel.x = 399

\* C6: the loop starts Running; is_running changes only from TRUE to FALSE
\* and only in a process_input that polls a window-close event or an Escape
\* key-down; once FALSE it stays FALSE, the loop starts no further
\* iteration, and run has returned for good.
C6_Running ==
    /\ (pc # "exited" => is_running)
    /\ [][/\ (is_running' # is_running =>
                /\ is_running /\ ~is_running'
                /\ pc = "input" /\ pc' = "update"
                /\ \E i \in 1 .. Len(events) :
                      \/ events[i].type = "Quit"
                      \/ events[i].type = "KeyDown" /\ events[i].keycode = "Escape")
          /\ (~is_running => ~is_running')
          /\ (pc' = "input" => is_running')
          /\ (pc = "loop" /\ ~is_running => pc' = "exited")
          /\ (pc = "exited" => pc' = "exited")
         ]_vars

\* C6 witness: the loop was stopped by a quit event and run has returned
C6_Witness == pc = "exited" /\ exit_code = 0 /\ ~is_running /\ frames >= 1

\* C7: whatever the clock reads, the delta time of an update is at least
\* 16 ms and at most 50 ms, the update moves the paddle by at most 40 px and
\* each ball by at most 0.05 * |vel| on each axis.
C7_DeltaRange ==
    [][pc = "update" =>
        /\ 16 * (TICKS_PER_SEC \div 1000) <= delta_time'
        /\ delta_time' * 1000 <= 50 * TICKS_PER_SEC
        /\ Abs(paddle_pos'.x - paddle_pos.x) <= 40 * PX
        /\ paddle_pos'.y = paddle_pos.y
        /\ \A i \in 1 .. Len(balls) :
              /\ Abs(balls'[i].pos.x - balls[i].pos.x) * 20 <= Abs(balls[i].vel.x) * PX
              /\ Abs(balls'[i].pos.y - balls[i].pos.y) * 20 <= Abs(balls[i].vel.y) * PX
      ]_vars

\* C7 witness: after a stall of 0.1 s the update ran with 50 ms and moved the
\* paddle by 40 px
C7_Witness ==
    /\ pc = "render" /\ frames = 0
    /\ elapsed = 1000 /\ delta_time = 500
    /\ paddle_pos.x = InitialPaddle.x - 40 * PX

\* C8 as stated: with the paddle at 512, paddle_dir = 1 and 0.1 s elapsed,
\* one update leaves the paddle at 592.
C8_Original ==
    [][(pc = "update" /\ paddle_pos.x = 512 * PX /\ paddle_dir = 1 /\ elapsed' = 1000) =>
        paddle_pos'.x = 592 * PX
      ]_vars

\* C8 as amended: with the paddle at 512, paddle_dir = 1 and 0.1 s elapsed,
\* one update leaves the paddle at 512 + 800 * 0.05 = 552: the delta time is
\* capped at 0.05 s.
C8_PaddleScenario ==
    [][(pc = "update" /\ paddle_pos.x = 512 * PX /\ paddle_dir = 1 /\ elapsed' = 1000) =>
        paddle_pos'.x = 552 * PX
      ]_vars

\* C8 witness: the first update ran 0.1 s after the start with paddle_dir = 1
C8_Witness ==
    /\ pc = "render" /\ frames = 0
    /\ elapsed = 1000 /\ paddle_dir = 1
    /\ paddle_pos.x = 552 * PX

\* C9: a physics update with delta time 0 and paddle_dir 0 leaves the paddle
\* and every ball's position unchanged and changes a velocity component at
\* most in its sign; a second such update right after it changes nothing.
C9_ZeroDelta ==
    [][(frames' = frames + 1 /\ delta_time' = 0 /\ paddle_dir' = 0) =>
        /\ paddle_pos' = paddle_pos
        /\ Len(balls') = Len(balls)
        /\ \A i \in 1 .. Len(balls) :
              /\ balls'[i].pos = balls[i].pos
              /\ balls'[i].vel.x \in {balls[i].vel.x, -balls[i].vel.x}
              /\ balls'[i].vel.y \in {balls[i].vel.y, -balls[i].vel.y}
        /\ ((frames >= 1 /\ delta_time = 0 /\ paddle_dir = 0) => balls' = balls)
      ]_vars

\* C9 witness: two updates with delta time 0 have run on a ball that sits
\* on the left wall's edge, and the first one flipped its vel.x to 399
C9_Witness ==
    /\ frames = 2 /\ delta_time = 0 /\ paddle_dir = 0
    /\ balls[1].pos.x = 15 * PX /\ balls[1].vel.x = 399

\* C10 as stated: one physical press of R, however long it is held, spawns
\* exactly one ball.
C10_EdgeTriggered == press_spawns <= 1

\* the balls of a collection by rank of creation, front first
Ids(bs) == [i \in 1 .. Len(bs) |-> bs[i].id]

Exited(b) == b.pos.y > WINDOW_HEIGHT /\ b.vel.y > 0

\* some k or fewer updates bring the ball b back to pos.y <= WINDOW_HEIGHT
RECURSIVE CanReturn(_, _, _)
CanReturn(b, ppos, k) ==
    IF b.pos.y <= WINDOW_HEIGHT THEN TRUE
    ELSE IF k = 0 THEN FALSE
    ELSE \E dir \in {-1, 0, 1}, dt \in GridDelta :
            LET moved == MovePaddle(ppos, dir, dt)
            IN  CanReturn(MoveBall(b, moved, dt), moved, k - 1)

\* C12 as stated: a ball that has exited the bottom moving down may come
\* back: some continuation (here: of at most ReturnHorizon updates) brings
\* its pos.y back to at most WINDOW_HEIGHT.
C12_Original ==
    \A i \in 1 .. Len(balls) :
        Exited(balls[i]) => CanReturn(balls[i], paddle_pos, ReturnHorizon)

\* C12 as amended: a ball that has exited the bottom moving down never comes
\* back: after every update it still has pos.y > WINDOW_HEIGHT and vel.y > 0,
\* and its pos.y has not decreased.
C12_NoReturn ==
    [][\A i \in 1 .. Len(balls) :
          Exited(balls[i]) =>
             /\ Len(balls') = Len(balls)
             /\ Exited(balls'[i])
             /\ balls'[i].vel.y = balls[i].vel.y
             /\ balls'[i].pos.y >= balls[i].pos.y
      ]_vars

\* C12 witness: a ball below the window has gone through two updates with a
\* paddle right above it and is further down
C12_Witness ==
    /\ frames = 2 /\ delta_time > 0
    /\ Abs(paddle_pos.x - balls[1].pos.x) <= PADDLE_WIDTH \div 2
    /\ balls[1].pos.y > 769 * PX + Step(201, 170)
    /\ balls[1].vel.y = 201

\* C13: a reflection changes the velocity only: after every update each
\* ball's position is its position before plus its velocity before times
\* dt, on both axes, reflected or not; and pos = (15, 300), vel = (-100, 50),
\* dt = 0.01 s gives pos.x = 14 and vel.x = +100.
C13_VelocityOnly ==
    [][frames' = frames + 1 =>
          /\ \A i \in 1 .. Len(balls) :
                /\ balls'[i].pos.x = balls[i].pos.x + Step(balls[i].vel.x, delta_time')
                /\ balls'[i].pos.y = balls[i].pos.y + Step(balls[i].vel.y, delta_time')
          /\ LET b == MoveBall(Ball(1, Vector2(15 * PX, 300 * PX), Vector2(-100, 50)),
                               paddle_pos', TICKS_PER_SEC \div 100)
             IN  b.pos = Vector2(14 * PX, 300 * PX + PX \div 2) /\ b.vel = Vector2(100, 50)
      ]_vars

\* C13 witness: a ball has been reflected by the left wall and by the top
\* wall in one update and lies beyond both
C13_Witness ==
    /\ frames = 1 /\ delta_time = 500
    /\ balls[1].vel = Vector2(399, 400)
    /\ balls[1].pos = Vector2(14 * PX - 199500, 14 * PX - 200000)

\* the paddle test of update on the positions after the step
PaddleZone(ppos, pos) ==
    /\ Abs(ppos.x - pos.x) <= 45 * PX
    /\ 753 * PX <= pos.y
    /\ pos.y <= 768 * PX

\* C14: in one update the paddle negates a ball's vel.y exactly when the ball
\* moves down and, after the integration and the paddle's move of this
\* update, |paddle.pos.x - ball.pos.x| <= 45 and 753 <= ball.pos.y <= 768;
\* every other downward ball keeps its vel.y, and a ball moving up below the
\* top wall keeps it too.
C14_PaddleHit ==
    [][frames' = frames + 1 =>
          \A i \in 1 .. Len(balls) :
             LET hit == PaddleZone(paddle_pos', balls'[i].pos) /\ balls[i].vel.y > 0
             IN  /\ hit => balls'[i].vel.y = -balls[i].vel.y
                 /\ (~hit /\ balls[i].vel.y > 0) => balls'[i].vel.y = balls[i].vel.y
                 /\ (balls[i].vel.y < 0 /\ balls'[i].pos.y > THICKNESS) =>
                       balls'[i].vel.y = balls[i].vel.y
      ]_vars

\* C14 witness: a ball 45 px beside the paddle's centre at the lower edge of
\* the window has been sent up
C14_Witness ==
    /\ frames = 1
    /\ balls[1].vel.y = -201
    /\ balls[1].pos.y = WINDOW_HEIGHT
    /\ Abs(paddle_pos.x - balls[1].pos.x) = PADDLE_WIDTH \div 2

\* C15: when a step of the startup fails, the process ends with a nonzero
\* exit code and the loop is never entered: nothing is sampled, updated or
\* rendered and there is no world; a run that was built ends only with exit
\* code 0, after a quit, and has no exit code before.
C15_StartupFailure ==
    /\ build_result # "ok" =>
          /\ pc = "exited" /\ exit_code = 1
          /\ events = <<>> /\ elapsed = -1 /\ delta_time = -1
          /\ frames = 0 /\ frame = <<>>
          /\ balls = <<>> /\ created = 0
    /\ (build_result = "ok" /\ pc = "exited") => (exit_code = 0 /\ ~is_running)
    /\ pc # "exited" => exit_code = -1

\* C15 witness: the creation of the window failed and the process is over
C15_Witness ==
    build_result = "window" /\ pc = "exited" /\ exit_code = 1 /\ frames = 0

\* C16: an iteration is process_input, then one update, then one render; the
\* stop condition is read only between two iterations, so is_running changes
\* only in process_input and the iteration that sampled the quit still
\* updates and renders before run returns.
C16_IterationOrder ==
    [][/\ pc = "loop" => pc' \in {"loop", "input", "exited"}
       /\ pc = "input" => pc' \in {"input", "update"}
       /\ pc = "update" => pc' \in {"update", "render"}
       /\ pc = "render" => pc' \in {"render", "loop"}
       /\ pc = "exited" => pc' = "exited"
       /\ (pc = "loop" /\ pc' = "input") => is_running
       /\ (pc = "loop" /\ pc' = "exited") => ~is_running
       /\ (pc = "update" /\ pc' = "render") => (delta_time' > 0 /\ frames' = frames)
       /\ (pc = "render" /\ pc' = "loop") =>
             (frames' = frames + 1 /\ frame' = Rects(balls, paddle_pos))
       /\ is_running' # is_running => (pc = "input" /\ pc' = "update")
       /\ frames' # frames => (pc = "render" /\ pc' = "loop")
      ]_vars

\* C16 witness: the first iteration sampled a quit and has updated and
\* rendered; run is about to read the stop condition
C16_Witness ==
    /\ pc = "loop" /\ ~is_running
    /\ frames = 1 /\ delta_time > 0 /\ frame = Rects(balls, paddle_pos)

\* where a spawned ball is created
SpawnPos == Vector2(WINDOW_WIDTH \div 2, WINDOW_HEIGHT \div 2)

\* the balls created by the last process_input
SpawnedIds == (created - fresh + 1) .. created

\* C17 as stated: every ball spawned in an iteration's process_input is
\* integrated by that iteration's update and drawn by that iteration's
\* render, away from the spawn position (512, 384).
C17_Original ==
    (pc = "loop" /\ frames = 1) =>
        \A id \in SpawnedIds :
            \E i \in 1 .. Len(balls) :
                /\ balls[i].id = id
                /\ balls[i].pos # SpawnPos
                /\ frame[4 + i] = BallRect(balls[i])

\* C17 as amended: the balls spawned in an iteration's process_input that
\* are in the collection when it returns (all of them, or the last 5 when
\* more than 5 were spawned) are at its front; that iteration's update
\* integrates them with the dt of every other ball and that iteration's
\* render draws them; as dt > 0, they are not at the spawn position
\* (512, 384) when they are drawn.
C17_SpawnBeforeUpdate ==
    [][/\ (pc = "input" /\ pc' = "update") =>
             /\ Len(balls') >= Min(fresh', MAX_BALLS)
             /\ \A i \in 1 .. Min(fresh', MAX_BALLS) :
                   balls'[i].id = created' + 1 - i /\ balls'[i].pos = SpawnPos
             /\ \A i \in 1 .. Len(balls') :
                   balls'[i].id \in (created' - fresh' + 1) .. created' => i <= MAX_BALLS
       /\ (pc = "update" /\ pc' = "render") =>
             /\ delta_time' > 0
             /\ \A i \in 1 .. Len(balls) :
                   /\ balls'[i].id = balls[i].id
                   /\ balls'[i].pos.x = balls[i].pos.x + Step(balls[i].vel.x, delta_time')
                   /\ balls'[i].pos.y = balls[i].pos.y + Step(balls[i].vel.y, delta_time')
             /\ \A i \in 1 .. Min(fresh, MAX_BALLS) : balls'[i].pos # SpawnPos
       /\ (pc = "render" /\ pc' = "loop") =>
             /\ Len(frame') = 4 + Len(balls)
             /\ \A i \in 1 .. Min(fresh, MAX_BALLS) :
                   /\ balls[i].id \in SpawnedIds
                   /\ balls[i].pos # SpawnPos
                   /\ frame'[4 + i] = BallRect(balls[i])
                   /\ frame'[4 + i] # BallRect(Ball(0, SpawnPos, balls[i].vel))
      ]_vars

\* C17 witness: six balls were spawned in one process_input and the frame of
\* that iteration shows the last five of them, moved
C17_Witness ==
    /\ pc = "loop" /\ frames = 1 /\ fresh = 6 /\ Len(balls) = 5
    /\ \A i \in 1 .. 5 :
          /\ balls[i].id = created + 1 - i
          /\ frame[4 + i] = BallRect(balls[i])
          /\ balls[i].pos # SpawnPos

\* no draw of get_random_velocity has a zero component
NonZeroDraws ==
    \A sx \in RangeX, sy \in RangeY :
        get_random_velocity(sx, sy).x # 0 /\ get_random_velocity(sx, sy).y # 0

\* C18: a reflection flips the sign of one velocity component and nothing
\* else: every update keeps |vel.x| and |vel.y| of every ball, which are
\* nonzero from the draw on; vel.x changes only at a side wall, never by the
\* paddle, and vel.y only at the top wall or the paddle.
C18_SignFlips ==
    [][frames' = frames + 1 =>
          /\ NonZeroDraws
          /\ \A i \in 1 .. Len(balls) :
                /\ Abs(balls'[i].vel.x) = Abs(balls[i].vel.x)
                /\ Abs(balls'[i].vel.y) = Abs(balls[i].vel.y)
                /\ balls'[i].vel.x # 0 /\ balls'[i].vel.y # 0
                /\ balls'[i].vel.x # balls[i].vel.x =>
                      \/ balls'[i].pos.x <= THICKNESS
                      \/ balls'[i].pos.x >= WINDOW_WIDTH - THICKNESS
                /\ PaddleZone(paddle_pos', balls'[i].pos) =>
                      \/ balls'[i].vel.x = balls[i].vel.x
                      \/ balls'[i].pos.x <= THICKNESS
                      \/ balls'[i].pos.x >= WINDOW_WIDTH - THICKNESS
                /\ balls'[i].vel.y # balls[i].vel.y =>
                      \/ balls'[i].pos.y <= THICKNESS
                      \/ PaddleZone(paddle_pos', balls'[i].pos)
      ]_vars

\* C18 witness: after two updates a ball that was sent back by the left wall
\* and by the paddle has the magnitudes it started with
C18_Witness ==
    /\ frames = 2
    /\ balls[1].vel = Vector2(399, -201)
    /\ balls[1].pos.x = 16 * PX
    /\ PaddleZone(paddle_pos, balls[1].pos)

\* C19: the paddle's pos.y is always 753; paddle_dir is always -1, 0 or 1
\* and every process_input sets it from the movement keys that are down then
\* (0 when none is, -1 for A, +1 for D, D over A), whatever it was before; an
\* update with paddle_dir = 0 leaves the paddle; nothing but an update with
\* paddle_dir # 0 moves it, and nothing but process_input sets paddle_dir.
C19_Paddle ==
    [][/\ paddle_pos.y = 753 * PX /\ paddle_pos'.y = 753 * PX
       /\ paddle_dir \in {-1, 0, 1} /\ paddle_dir' \in {-1, 0, 1}
       /\ (pc = "input" /\ pc' = "update") =>
             paddle_dir' = (IF "D" \in keys' THEN 1 ELSE IF "A" \in keys' THEN -1 ELSE 0)
       /\ paddle_dir' # paddle_dir => (pc = "input" /\ pc' = "update")
       /\ (pc = "update" /\ paddle_dir = 0) => paddle_pos' = paddle_pos
       /\ paddle_pos' # paddle_pos => (pc = "update" /\ paddle_dir # 0)
       /\ (created' # created \/ balls' # balls) => paddle_pos'.y = paddle_pos.y
       /\ (created' # created) => paddle_pos' = paddle_pos
      ]_vars

\* C19 witness: the paddle was moved in the first iteration; the second found
\* no movement key down and its update left the paddle where it was
C19_Witness ==
    /\ pc = "render" /\ frames = 1
    /\ keys = {} /\ paddle_dir = 0
    /\ paddle_pos.x < 512 * PX /\ paddle_pos.y = 753 * PX

\* a ball is at or beyond a wall and moves into it
Heading(b) ==
    \/ b.pos.x <= THICKNESS /\ b.vel.x < 0
    \/ b.pos.x >= WINDOW_WIDTH - THICKNESS /\ b.vel.x > 0
    \/ b.pos.y <= THICKNESS /\ b.vel.y < 0

\* a ball is less than 20 px beyond the left, right and top walls
Near(b) ==
    /\ THICKNESS - 20 * PX < b.pos.x
    /\ b.pos.x < WINDOW_WIDTH - THICKNESS + 20 * PX
    /\ b.pos.y > THICKNESS - 20 * PX

\* C20: after every update no ball is at or beyond the left, right or top
\* wall and moving into it; so every ball is created, and every update with
\* 0 < dt <= 0.05 s leaves each ball, not moving into a wall and less than
\* 20 px beyond the left, right and top walls.
C20_NoEscape ==
    [][frames' = frames + 1 =>
          /\ \A v \in SampleVel :
                /\ ~Heading(Ball(0, SpawnPos, v)) /\ Near(Ball(0, SpawnPos, v))
                /\ \A i \in 1 .. 2 :
                      ~Heading(InitialBalls(v, v)[i]) /\ Near(InitialBalls(v, v)[i])
          /\ \A i \in 1 .. Len(balls) :
                /\ ~Heading(balls'[i])
                /\ (~Heading(balls[i]) /\ Near(balls[i])
                      /\ 0 < delta_time' /\ delta_time' <= MAX_DELTA) => Near(balls'[i])
      ]_vars

\* C20 witness: a ball one pixel off the top and left walls, moving into
\* them, has made the longest step and has been turned round beyond them
C20_Witness ==
    /\ frames = 1 /\ delta_time = MAX_DELTA
    /\ balls[1].pos = Vector2(16 * PX - 199500, 16 * PX - 200000)
    /\ balls[1].vel = Vector2(399, 400)

=============================================================================
